---- MODULE Spec2Model ----
(***************************************************************************)
(* Model of the SAFT equation-of-state object of despasito                 *)
(* (equations_of_state/saft/saft.py, class EosType) and of the fitting     *)
(* interface that mutates it (parameter_fitting/interface.py,              *)
(* ExpDataTemplate.update_parameters).                                     *)
(*                                                                         *)
(* Numbers are integers.  NaN is a value outside the numeric range for     *)
(* which every comparison is false, as in IEEE arithmetic.  Site fractions *)
(* are fixed-point numbers scaled by SC.                                   *)
(***************************************************************************)
EXTENDS Integers, Sequences, FiniteSets, TLC

VARIABLES
    bead_library,    \* self.bead_library : bead -> parameter name -> value
    cross_library,   \* self.cross_library : bead pair -> parameter name -> value
    eos_dict,        \* self.eos_dict : flag_assoc, epsilonHB, Kklab, Aideal_method, ...
    ctor,            \* the constructor's arguments saft_name and Aideal_method
    last,            \* the last public call: name, arguments, outcome, calls it made
    pc,              \* "idle", "returned" (outcome in last), or "solving" (in Aassoc)
    sv               \* locals of the running Aassoc call (solver iterate)

vars == <<bead_library, cross_library, eos_dict, ctor, last, pc, sv>>

(***************************************************************************)
(* Bounds of the model                                                     *)
(***************************************************************************)
MaxLen == 2          \* longest 1-D density array
MaxRows == 2         \* most rows of a 2-D density array
MaxCols == 1         \* most columns of a 2-D density array
MaxNames == 2        \* longest param_names list given to update_parameters
MaxXiLen == 2        \* longest mole-fraction list
MaxIter == 3         \* iteration budget of the site-fraction solver
MaxData == 2         \* most data points of a flash data set

(***************************************************************************)
(* Values                                                                  *)
(***************************************************************************)
NaN == 1000000000                    \* also stands for a non-finite result
None == "None"
Absent == -1                         \* a key that a dict does not have
SC == 100                            \* fixed-point scale: 1.0 is SC
Tol == 2                             \* convergence tolerance, in 1/SC

beads == <<"b1", "b2">>              \* kwargs["beads"]
Beads == {beads[n] : n \in 1..Len(beads)}
sitenames == <<"H", "e1">>
Sites == {sitenames[n] : n \in 1..Len(sitenames)}
number_of_components == 2
Comps == 1..number_of_components

EpsKey == <<"epsilonHB", "-", "H", "-", "e1">>
ParamKeys == {EpsKey}
ParamVals == {0, 4}
CrossPairs == {{"b1", "b2"}}
FitBeads == {"b1"}                   \* the beads whose parameters are fitted

RhoVals == {-1, 0, 2, NaN}           \* scalar densities, entries of 1-D densities
Rho2Vals == {-1, 2}                  \* entries of 2-D densities
XiVals == {-1, 0, 1}
TVals == {2}
PVals == {8}
R == 8                               \* constants.R
KScale == 20                         \* Kklab is in units of 1/KScale

\* a local name: Only({e(x) : x \in {v}}) is e(v), with v evaluated once
Only(S) == CHOOSE x \in S : TRUE

IsNaN(v) == v = NaN
\* v < 0. in floating point: false for NaN
Negative(v) == (~IsNaN(v)) /\ v < 0

RECURSIVE SumSeq(_)
SumSeq(s) == IF s = <<>> THEN 0 ELSE Head(s) + SumSeq(Tail(s))

RECURSIVE ISqrt(_, _)
ISqrt(n, r) == IF (r + 1) * (r + 1) > n THEN r ELSE ISqrt(n, r + 1)

Abs(a) == IF a >= 0 THEN a ELSE 0 - a

(***************************************************************************)
(* The SAFT variant (collaborator): declared attributes                   *)
(***************************************************************************)
SaftNames == {"gamma_mie"}
IdealMethods == {"Aideal_custom"}

\* saft_source.Aideal_method
DeclaredAidealMethod(saft_name) == "Abroglie"

\* saft_source.residual_helmholtz_contributions, in declared order
DeclaredContributions(saft_name) == <<"Amonomer", "Achain">>

\* eos_dict["molecular_composition"][i][k]
molecular_composition ==
    [i \in Comps |-> [k \in Beads |->
        IF i = 1 THEN (IF k = "b1" THEN 1 ELSE 0) ELSE 1]]

(***************************************************************************)
(* Association matrix builder                                              *)
(***************************************************************************)
\* initiate_assoc_matrices: site multiplicities nk[bead][site] and the
\* provisional flag
initiate_assoc_matrices ==
    [sitenames |-> sitenames,
     nk |-> [k \in Beads |-> [a \in Sites |-> 1]],
     flag_assoc |-> TRUE]

\* the combining rule for a missing cross parameter: geometric mean
Combine(x, y) == ISqrt(x * y, 0)

\* a parameter a bead does not define is zero
SelfParam(bl, key, k) == IF bl[k][key] = Absent THEN 0 ELSE bl[k][key]

\* energy between beads k and l for the parameter key
PairParam(bl, cl, key, k, l) ==
    IF k = l THEN SelfParam(bl, key, k)
    ELSE IF {k, l} \in DOMAIN cl /\ cl[{k, l}][key] # Absent
         THEN cl[{k, l}][key]
         ELSE Combine(SelfParam(bl, key, k), SelfParam(bl, key, l))

\* bonding volume of every active site pair: set at construction, not fitted
BondingVolume == 1

calc_assoc_matrices(bl, cl, nk) ==
    [epsilonHB |->
        [x \in Beads \X Beads \X Sites \X Sites |->
            IF x[3] # x[4] /\ nk[x[1]][x[3]] # 0 /\ nk[x[2]][x[4]] # 0
            THEN PairParam(bl, cl, EpsKey, x[1], x[2])
            ELSE 0],
     Kklab |->
        [x \in Beads \X Beads \X Sites \X Sites |->
            IF x[3] # x[4] /\ nk[x[1]][x[3]] # 0 /\ nk[x[2]][x[4]] # 0
            THEN BondingVolume
            ELSE 0]]

\* np.size(np.where(epsilonHB != 0.0)) == 0
AllZero(tensor) == \A x \in DOMAIN tensor : tensor[x] = 0

(***************************************************************************)
(* EosType.parameter_refresh                                               *)
(***************************************************************************)
\* parameter_refresh had it added the rebuilt energies to the tensor it holds
parameter_refresh_accumulating(ed, bl, cl) ==
    IF ed.flag_assoc
    THEN LET assoc_output == calc_assoc_matrices(bl, cl, ed.nk)
         IN [ed EXCEPT !.epsilonHB = [x \in DOMAIN @ |->
                                         @[x] + assoc_output.epsilonHB[x]],
                       !.Kklab = assoc_output.Kklab]
    ELSE ed

parameter_refresh(ed, bl, cl) ==
    IF ed.flag_assoc
    THEN LET assoc_output == calc_assoc_matrices(bl, cl, ed.nk)
         IN [ed EXCEPT !.epsilonHB = assoc_output.epsilonHB,
                       !.Kklab = assoc_output.Kklab]
    ELSE ed

(***************************************************************************)
(* EosType.__init__                                                        *)
(***************************************************************************)
Construct(saft_name, Aideal_method, mixing_rules, bl, cl) ==
    LET init == initiate_assoc_matrices
        assoc_output == calc_assoc_matrices(bl, cl, init.nk)
        ed0 == [Aideal_method |->
                    IF Aideal_method # None THEN Aideal_method
                    ELSE DeclaredAidealMethod(saft_name),
                residual_helmholtz_contributions |->
                    DeclaredContributions(saft_name),
                sitenames |-> init.sitenames,
                nk |-> init.nk,
                flag_assoc |->
                    IF AllZero(assoc_output.epsilonHB) THEN FALSE
                    ELSE init.flag_assoc,
                epsilonHB |-> assoc_output.epsilonHB,
                Kklab |-> assoc_output.Kklab]
    IN IF mixing_rules THEN parameter_refresh(ed0, bl, cl) ELSE ed0

NoCall == [op |-> "none"]

Init ==
    /\ bead_library \in {bl \in [Beads -> [ParamKeys -> ParamVals \cup {Absent}]] :
                             \A k \in Beads, key \in ParamKeys :
                                 (bl[k][key] = Absent) <=> (k \notin FitBeads)}
    /\ cross_library \in [CrossPairs -> [ParamKeys -> ParamVals \cup {Absent}]]
    /\ ctor \in [saft_name : SaftNames, Aideal_method : IdealMethods \cup {None}]
    /\ \E mixing_rules \in BOOLEAN :
          eos_dict = Construct(ctor.saft_name, ctor.Aideal_method, mixing_rules,
                               bead_library, cross_library)
    /\ last = [op |-> "__init__", exc |-> "none"]
    /\ pc = "returned"
    /\ sv = NoCall

(***************************************************************************)
(* Densities.  A density argument is [nd, v]: nd is its number of          *)
(* dimensions (0 for a scalar) and v its rows; a scalar and a 1-D array    *)
(* have the single row v[1].                                               *)
(***************************************************************************)
Rows(vals, maxr, maxc) ==
    UNION {[1..r -> [1..c -> vals]] : r \in 0..maxr, c \in 0..maxc}

RhoInputs ==
    {[nd |-> 0, v |-> <<<<x>>>>] : x \in RhoVals}
    \cup {[nd |-> 1, v |-> <<s>>] :
              s \in UNION {[1..n -> RhoVals] : n \in 0..MaxLen}}
    \cup {[nd |-> 2, v |-> m] : m \in Rows(Rho2Vals, MaxRows, MaxCols)}

\* every evaluator tests len(xi) before it reads an entry of xi: a list of
\* another length than the number of components is known by its length
XiInputs ==
    [1..number_of_components -> XiVals]
    \cup {[j \in 1..n |-> 1] : n \in (1..MaxXiLen) \ {number_of_components}}

Array1(s) == [nd |-> 1, v |-> <<s>>]

\* _check_density had it kept every row of a 2-D array (rho.flatten() in
\* place of rho[0])
_check_density_flatten(rho) ==
    LET RECURSIVE Flat(_)
        Flat(n) == IF n = 0 THEN <<>> ELSE Flat(n - 1) \o rho.v[n]
        r == Flat(Len(rho.v))
    IN IF \E j \in 1..Len(r) : IsNaN(r[j])
       THEN [exc |-> "ValueError", rho |-> r]
       ELSE IF Len(r) = 0
       THEN [exc |-> "ValueError", rho |-> r]
       ELSE IF \E j \in 1..Len(r) : Negative(r[j])
       THEN [exc |-> "ValueError", rho |-> r]
       ELSE [exc |-> "none", rho |-> r]

\* EosType._check_density
_check_density(rho) ==
    IF rho.nd = 2 /\ Len(rho.v) = 0
    THEN [exc |-> "IndexError", rho |-> <<>>]
    ELSE LET r == rho.v[1]
         IN IF \E j \in 1..Len(r) : IsNaN(r[j])
            THEN [exc |-> "ValueError", rho |-> r]
            ELSE IF Len(r) = 0
            THEN [exc |-> "ValueError", rho |-> r]
            ELSE IF \E j \in 1..Len(r) : Negative(r[j])
            THEN [exc |-> "ValueError", rho |-> r]
            ELSE [exc |-> "none", rho |-> r]

Raise(e, calls) == [exc |-> e, val |-> <<>>, calls |-> calls]
Result(v, calls) == [exc |-> "none", val |-> v, calls |-> calls]

\* arithmetic that propagates NaN
AddN(a, b) == IF IsNaN(a) \/ IsNaN(b) THEN NaN ELSE a + b
MulN(a, b) == IF IsNaN(a) \/ IsNaN(b) THEN NaN ELSE a * b
AddSeq(x, y) == [j \in 1..Len(x) |-> AddN(x[j], y[j])]

(***************************************************************************)
(* Collaborators of the SAFT variant: values aligned with rho              *)
(***************************************************************************)
\* getattr(self.saft_source, res)(rho, T, xi) at one density
ContributionValue(res, r, T, xi) ==
    (IF res = "Amonomer" THEN 3 ELSE 5) * r + T + SumSeq(xi)

\* Aideal.Aideal_contribution(rho, T, xi, massi, method) at one density
IdealValue(method, r, T, xi) ==
    (IF method = "Abroglie" THEN 7 ELSE 11) * (r + 1) + T

\* saft_source.calc_gr_assoc(rho, T, xi, Ktype)
calc_gr_assoc(r, T, xi) == 1

(***************************************************************************)
(* Association site fraction solver                                        *)
(***************************************************************************)
\* Aassoc.assoc_site_indices: (component, bead, site) with nonzero mole
\* fraction, composition and multiplicity, in index order
Triples ==
    [n \in 1..(number_of_components * Len(beads) * Len(sitenames)) |->
        <<((n - 1) \div (Len(beads) * Len(sitenames))) + 1,
          beads[(((n - 1) \div Len(sitenames)) % Len(beads)) + 1],
          sitenames[((n - 1) % Len(sitenames)) + 1]>>]

assoc_site_indices(nk, mc, xi) ==
    LET Kept(t) == xi[t[1]] # 0 /\ mc[t[1]][t[2]] # 0 /\ nk[t[2]][t[3]] # 0
    IN SelectSeq(Triples, Kept)

\* np.exp(epsilonHB / T) - 1.0, the exponential taken to base two
Fklab(ed, T) == [x \in DOMAIN ed.epsilonHB |-> 2 ^ (ed.epsilonHB[x] \div T) - 1]

\* a / b in floating point: non-finite for b = 0
SafeDiv(a, b) == IF IsNaN(a) \/ IsNaN(b) \/ b = 0 THEN NaN ELSE a \div b

RECURSIVE SumN(_)
SumN(s) == IF s = <<>> THEN 0 ELSE AddN(Head(s), SumN(Tail(s)))

\* one successive-substitution update of the fractions X of one sample:
\* X = 1 / (1 + rho * sum_j xi_j nk x_jl X_jlb Delta_klab)
XikaStep(X, r, xi, indices, mc, nk, F, K, gr) ==
    [ind \in 1..Len(indices) |->
        LET term(jnd) ==
                xi[indices[jnd][1]] * mc[indices[jnd][1]][indices[jnd][2]]
                  * nk[indices[jnd][2]][indices[jnd][3]]
                  * F[<<indices[ind][2], indices[jnd][2],
                        indices[ind][3], indices[jnd][3]>>]
                  * K[<<indices[ind][2], indices[jnd][2],
                        indices[ind][3], indices[jnd][3]>>] * gr
                  * X[jnd]
            RECURSIVE S(_)
            S(jnd) == IF jnd = 0 THEN 0 ELSE term(jnd) + S(jnd - 1)
        IN IF \E jnd \in 1..Len(indices) : IsNaN(X[jnd]) THEN NaN
           ELSE IF SC + ((r * S(Len(indices))) \div KScale) = 0 THEN NaN
           ELSE (SC * SC) \div (SC + ((r * S(Len(indices))) \div KScale))]

\* the largest change of any fraction of any sample is below the tolerance;
\* false when a change is NaN
Converged(Xnew, X) ==
    \A s \in 1..Len(X) : \A ind \in 1..Len(X[s]) :
        /\ ~IsNaN(Xnew[s][ind])
        /\ ~IsNaN(X[s][ind])
        /\ Abs(Xnew[s][ind] - X[s][ind]) < Tol

XikaIterate(X, rho, xi, indices, mc, nk, F, K, gr) ==
    [s \in 1..Len(rho) |-> XikaStep(X[s], rho[s], xi, indices, mc, nk, F, K, gr[s])]

XikaInit(rho, indices) == [s \in 1..Len(rho) |-> [ind \in 1..Len(indices) |-> SC]]

\* the loop of the solver from iteration it on: stop when every sample has
\* converged, signal a convergence failure when the budget is exhausted
RECURSIVE XikaLoop(_, _, _, _, _, _, _, _, _, _)
XikaLoop(X, it, rho, xi, indices, mc, nk, F, K, gr) ==
    IF it >= MaxIter THEN [exc |-> "ConvergenceError", Xika |-> X]
    ELSE CHOOSE out \in
             {IF Converged(Xnew, X) THEN [exc |-> "none", Xika |-> Xnew]
              ELSE XikaLoop(Xnew, it + 1, rho, xi, indices, mc, nk, F, K, gr) :
                  Xnew \in {XikaIterate(X, rho, xi, indices, mc, nk, F, K, gr)}} :
             TRUE

calc_Xika_wrap(indices, rho, xi, mc, nk, F, K, gr) ==
    XikaLoop(XikaInit(rho, indices), 0, rho, xi, indices, mc, nk, F, K, gr)

\* np.log of a fraction x/SC for 0 < x, scaled by SC
RECURSIVE LnS(_)
LnS(x) == IF x >= SC THEN 0 ELSE LnS(2 * x) - 69

\* lines 283-290 had line 288 left out the mole fraction xi[i]
AssocContribution_unweighted(Xika, rho, xi, indices, mc, nk) ==
    [s \in 1..Len(rho) |->
        LET Counted(ind) == nk[indices[ind][2]][indices[ind][3]] # 0
            tmp(ind) == LnS(Xika[s][ind]) + ((SC - Xika[s][ind]) \div 2)
            RECURSIVE Acc(_)
            Acc(ind) ==
                IF ind > Len(indices) THEN 0
                ELSE IF Counted(ind)
                THEN mc[indices[ind][1]][indices[ind][2]]
                       * nk[indices[ind][2]][indices[ind][3]] * tmp(ind)
                     + Acc(ind + 1)
                ELSE Acc(ind + 1)
        IN IF \E ind \in 1..Len(indices) :
                 Counted(ind) /\ (IsNaN(Xika[s][ind]) \/ Xika[s][ind] <= 0)
           THEN NaN
           ELSE Acc(1)]

\* lines 283-290: the association energy from the solved fractions
AssocContribution(Xika, rho, xi, indices, mc, nk) ==
    [s \in 1..Len(rho) |->
        LET Counted(ind) == nk[indices[ind][2]][indices[ind][3]] # 0
            tmp(ind) == LnS(Xika[s][ind]) + ((SC - Xika[s][ind]) \div 2)
            RECURSIVE Acc(_)
            Acc(ind) ==
                IF ind > Len(indices) THEN 0
                ELSE IF Counted(ind)
                THEN xi[indices[ind][1]]
                       * mc[indices[ind][1]][indices[ind][2]]
                       * nk[indices[ind][2]][indices[ind][3]] * tmp(ind)
                     + Acc(ind + 1)
                ELSE Acc(ind + 1)
        \* the logarithm of a fraction that is not positive is not finite
        IN IF \E ind \in 1..Len(indices) :
                 Counted(ind) /\ (IsNaN(Xika[s][ind]) \/ Xika[s][ind] <= 0)
           THEN NaN
           ELSE Acc(1)]

(***************************************************************************)
(* The public evaluators of EosType.  Each returns [exc, val, calls]:      *)
(* the exception raised ("none" when it returns), the returned array and   *)
(* the collaborator calls made, in order.                                  *)
(***************************************************************************)
Call(f, arg) == <<f, arg>>

AassocCalls ==
    <<Call("calc_gr_assoc", "klab"), Call("assoc_site_indices", ""),
      Call("calc_Xika_wrap", "")>>

\* lines 280-290 had they caught the exception of the solver and gone on
\* with the fractions of the last iteration
AassocFinish_stale(X, rho, xi, indices, nk) ==
    Result(AssocContribution(X.Xika, rho, xi, indices, molecular_composition, nk),
           AassocCalls)

\* lines 280-290: what Aassoc does with the outcome X of calc_Xika_wrap; an
\* exception of the solver is not handled and reaches the caller
AassocFinish(X, rho, xi, indices, nk) ==
    IF X.exc # "none" THEN Raise(X.exc, AassocCalls)
    ELSE Result(AssocContribution(X.Xika, rho, xi, indices,
                                  molecular_composition, nk), AassocCalls)

\* lines 256-259: the validation of Aassoc
AassocCheck(rho, xi) ==
    IF Len(xi) # number_of_components THEN [exc |-> "ValueError", rho |-> <<>>]
    ELSE _check_density(rho)

\* lines 261-290: Aassoc on a validated density
AassocSolve(ed, rho, T, xi) ==
    Only({Only({AassocFinish(X, rho, xi, indices, ed.nk) :
                   X \in {calc_Xika_wrap(indices, rho, xi, molecular_composition,
                                         ed.nk, F, ed.Kklab, gr)}}) :
             F \in {Fklab(ed, T)},
             gr \in {[s \in 1..Len(rho) |-> calc_gr_assoc(rho[s], T, xi)]},
             indices \in {assoc_site_indices(ed.nk, molecular_composition, xi)}})

\* EosType.Aassoc
Aassoc(ed, rho, T, xi) ==
    Only({IF cd.exc # "none" THEN Raise(cd.exc, <<>>)
          ELSE AassocSolve(ed, cd.rho, T, xi) :
             cd \in {AassocCheck(rho, xi)}})

\* lines 167-169: the loop over the declared contributions from entry n on
RECURSIVE SumContributions(_, _, _, _, _, _)
SumContributions(acc, n, names, rho, T, xi) ==
    IF n > Len(names) THEN acc
    ELSE Only({SumContributions(next, n + 1, names, rho, T, xi) :
                  next \in {[val |-> [j \in 1..Len(rho) |->
                                         acc.val[j]
                                           + ContributionValue(names[n], rho[j], T, xi)],
                             calls |-> Append(acc.calls, Call(names[n], ""))]}})

\* line 172: Ares += self.Aassoc(rho, T, xi)
AddAssoc(Ares, assoc) ==
    IF assoc.exc # "none"
    THEN Raise(assoc.exc, Ares.calls \o <<Call("Aassoc", "")>> \o assoc.calls)
    ELSE Result(AddSeq(Ares.val, assoc.val),
                Ares.calls \o <<Call("Aassoc", "")>> \o assoc.calls)

\* lines 167-174 had line 171 not tested flag_assoc
ResidualSum_unguarded(ed, rho, T, xi) ==
    Only({Only({AddAssoc(Ares, assoc) :
                   assoc \in {Aassoc(ed, Array1(rho), T, xi)}}) :
             Ares \in {SumContributions(
                           [val |-> [j \in 1..Len(rho) |-> 0], calls |-> <<>>],
                           1, ed.residual_helmholtz_contributions, rho, T, xi)}})

\* lines 167-174: residual_helmholtz_energy on validated arguments
ResidualSum(ed, rho, T, xi) ==
    Only({IF ed.flag_assoc
          THEN Only({AddAssoc(Ares, assoc) :
                        assoc \in {Aassoc(ed, Array1(rho), T, xi)}})
          ELSE Result(Ares.val, Ares.calls) :
             Ares \in {SumContributions(
                           [val |-> [j \in 1..Len(rho) |-> 0], calls |-> <<>>],
                           1, ed.residual_helmholtz_contributions, rho, T, xi)}})

\* EosType.residual_helmholtz_energy
residual_helmholtz_energy(ed, rho, T, xi) ==
    IF Len(xi) # number_of_components THEN Raise("ValueError", <<>>)
    ELSE Only({IF cd.exc # "none" THEN Raise(cd.exc, <<>>)
               ELSE IF \E n \in 1..Len(xi) : xi[n] < 0
                    THEN Raise("ValueError", <<>>)
               ELSE ResidualSum(ed, cd.rho, T, xi) :
                  cd \in {_check_density(rho)}})

\* EosType.Aideal
Aideal(ed, rho, T, xi, method) ==
    IF Len(xi) # number_of_components THEN Raise("ValueError", <<>>)
    ELSE Only({IF cd.exc # "none" THEN Raise(cd.exc, <<>>)
               ELSE Result([j \in 1..Len(cd.rho) |->
                               IdealValue(method, cd.rho[j], T, xi)],
                           <<Call("Aideal_contribution", method)>>) :
                  cd \in {_check_density(rho)}})

\* line 201: the sum of the two energies
AddIdeal(res, ideal) ==
    IF ideal.exc # "none" THEN Raise(ideal.exc, res.calls \o ideal.calls)
    ELSE Result(AddSeq(res.val, ideal.val), res.calls \o ideal.calls)

\* line 201 had it left the method argument of Aideal to its default
HelmholtzSum_default_method(ed, rho, T, xi) ==
    Only({IF res.exc # "none" THEN Raise(res.exc, res.calls)
          ELSE Only({AddIdeal(res, ideal) :
                        ideal \in {Aideal(ed, Array1(rho), T, xi, "Abroglie")}}) :
             res \in {residual_helmholtz_energy(ed, Array1(rho), T, xi)}})

\* line 201: helmholtz_energy on a validated density; the residual energy is
\* evaluated first
HelmholtzSum(ed, rho, T, xi) ==
    Only({IF res.exc # "none" THEN Raise(res.exc, res.calls)
          ELSE Only({AddIdeal(res, ideal) :
                        ideal \in {Aideal(ed, Array1(rho), T, xi,
                                          ed.Aideal_method)}}) :
             res \in {residual_helmholtz_energy(ed, Array1(rho), T, xi)}})

\* EosType.helmholtz_energy
helmholtz_energy(ed, rho, T, xi) ==
    IF Len(xi) # number_of_components THEN Raise("ValueError", <<>>)
    ELSE Only({IF cd.exc # "none" THEN Raise(cd.exc, <<>>)
               ELSE HelmholtzSum(ed, cd.rho, T, xi) :
                  cd \in {_check_density(rho)}})

\* gtb.central_difference(x, f, args, step_size): symmetric difference
\* quotient of f at x with a relative step, here half of x
StepOf(x) == x \div 2
central_difference(ed, x, T, xi) ==
    Only({IF up.exc # "none" THEN Raise(up.exc, up.calls)
          ELSE Only({IF dn.exc # "none" THEN Raise(dn.exc, up.calls \o dn.calls)
                     ELSE Result([j \in 1..Len(x) |->
                                     SafeDiv(AddN(up.val[j], MulN(-1, dn.val[j])),
                                             2 * StepOf(x[j]))],
                                 up.calls \o dn.calls) :
                        dn \in {helmholtz_energy(
                                    ed, Array1([j \in 1..Len(x) |-> x[j] - StepOf(x[j])]),
                                    T, xi)}}) :
             up \in {helmholtz_energy(
                         ed, Array1([j \in 1..Len(x) |-> x[j] + StepOf(x[j])]),
                         T, xi)}})

\* lines 315-318: pressure on a validated density
PressureOf(ed, rho, T, xi) ==
    Only({IF P_tmp.exc # "none" THEN Raise(P_tmp.exc, P_tmp.calls)
          ELSE Result([j \in 1..Len(P_tmp.val) |->
                          MulN(P_tmp.val[j], T * R * rho[j] * rho[j])],
                      P_tmp.calls) :
             P_tmp \in {central_difference(ed, rho, T, xi)}})

\* EosType.pressure
pressure(ed, rho, T, xi) ==
    IF Len(xi) # number_of_components THEN Raise("ValueError", <<>>)
    ELSE Only({IF cd.exc # "none" THEN Raise(cd.exc, <<>>)
               ELSE PressureOf(ed, cd.rho, T, xi) :
                  cd \in {_check_density(rho)}})

\* tb.partial_density_central_difference(xi, rho, T, func, step_size,
\* log_method): one derivative per component
partial_density_central_difference(ed, xi, rho, T, log_method) ==
    Only({IF at.exc # "none" THEN Raise(at.exc, at.calls)
          ELSE Result([i \in 1..Len(xi) |->
                          IF log_method THEN xi[i] * SumN(at.val)
                          ELSE SumN(at.val)],
                      <<Call("partial_density_central_difference",
                             IF log_method THEN "log_method=True"
                             ELSE "log_method=False")>> \o at.calls) :
             at \in {residual_helmholtz_energy(ed, Array1(rho), T, xi)}})

\* np.log(P / (rho * T * constants.R)) at one density, to base two
RECURSIVE ILog2(_)
ILog2(n) == IF n <= 1 THEN 0 ELSE 1 + ILog2(n \div 2)
LogZ(P, r, T) == IF r = 0 THEN NaN ELSE ILog2(P) - ILog2(r * T * R)

\* shape of the numpy broadcast of two 1-D arrays, 0 when they do not match
BroadcastLen(n, m) == IF n = m THEN n ELSE IF n = 1 THEN m ELSE IF m = 1 THEN n ELSE 0
At(s, j) == IF Len(s) = 1 THEN s[1] ELSE s[j]

\* line 351: phi, represented by its logarithm
Phi(P, rho, xi, T, Ares, dAresdrho) ==
    Only({IF n = 0 THEN Raise("ValueError", Ares.calls \o dAresdrho.calls)
          ELSE Result([j \in 1..n |->
                          AddN(AddN(At(Ares.val, j),
                                    MulN(At(rho, j), At(dAresdrho.val, j))),
                               MulN(-1, LogZ(P, At(rho, j), T)))],
                      Ares.calls \o dAresdrho.calls) :
             n \in {BroadcastLen(Len(rho), Len(xi))}})

\* lines 347-353: fugacity_coefficient on a validated density; line 349 passes
\* log_method=True whatever the caller gave
FugacityOf(ed, P, rho, xi, T, log_method) ==
    Only({IF Ares.exc # "none" THEN Raise(Ares.exc, Ares.calls)
          ELSE Only({IF dAresdrho.exc # "none"
                     THEN Raise(dAresdrho.exc, Ares.calls \o dAresdrho.calls)
                     ELSE Phi(P, rho, xi, T, Ares, dAresdrho) :
                        dAresdrho \in {partial_density_central_difference(
                                           ed, xi, rho, T, TRUE)}}) :
             Ares \in {residual_helmholtz_energy(ed, Array1(rho), T, xi)}})

\* EosType.fugacity_coefficient
fugacity_coefficient(ed, P, rho, xi, T, log_method) ==
    IF Len(xi) # number_of_components THEN Raise("ValueError", <<>>)
    ELSE Only({IF cd.exc # "none" THEN Raise(cd.exc, <<>>)
               ELSE FugacityOf(ed, P, cd.rho, xi, T, log_method) :
                  cd \in {_check_density(rho)}})

\* EosType.density_max
density_max(ed, xi, T) ==
    IF Len(xi) # number_of_components THEN Raise("ValueError", <<>>)
    ELSE Result(<<SumSeq(xi) + T>>, <<Call("density_max", "")>>)

(***************************************************************************)
(* Parameter names: a string is a sequence of tokens, the separators "_"   *)
(* and "-" being tokens of their own                                       *)
(***************************************************************************)
\* str.split(sep): the pieces between the separators, at least one piece
RECURSIVE Split(_, _)
Split(s, sep) ==
    IF \A n \in 1..Len(s) : s[n] # sep THEN <<s>>
    ELSE LET n == CHOOSE m \in 1..Len(s) :
                      s[m] = sep /\ \A j \in 1..(m - 1) : s[j] # sep
         IN <<SubSeq(s, 1, n - 1)>> \o Split(SubSeq(s, n + 1, Len(s)), sep)

BadSiteName == <<"epsilonHB", "-", "H">>
NoSiteName == <<"epsilon">>
ParamNames ==
    { EpsKey,
      EpsKey \o <<"_", "b2">>,
      BadSiteName,
      EpsKey \o <<"_", "b2", "_", "b1">> }
BeadNames == {<<"b1">>, <<"b1", "b2">>}

\* EosTemplate.update_parameter: write the value into the table entry; the
\* tables here hold the association energies only, a parameter of another
\* kind is written to an entry that no tensor is built from
BaseUpdateParameter(st, param_name, bead_names, param_value) ==
    IF param_name \notin ParamKeys THEN st
    ELSE IF Len(bead_names) = 1
    THEN [st EXCEPT !.bl[bead_names[1]][param_name] = param_value]
    ELSE [st EXCEPT !.cl[{bead_names[1], bead_names[2]}][param_name] = param_value]

\* update_parameter had it refused only more than two site names
update_parameter_lenient(st, param_name, bead_names, param_value) ==
    LET parameter_list == Split(param_name, "-")
    IN IF Len(parameter_list) > 3
       THEN [st EXCEPT !.exc = "ValueError"]
       ELSE BaseUpdateParameter(
                [st EXCEPT !.base = Append(@, <<param_name, bead_names,
                                                param_value>>)],
                param_name, bead_names, param_value)

\* EosType.update_parameter on the tables st = [bl, cl, exc, base], base
\* being the log of the calls handed to the base class
update_parameter(st, param_name, bead_names, param_value) ==
    LET parameter_list == Split(param_name, "-")
    IN IF Len(parameter_list) > 1 /\ Len(Tail(parameter_list)) # 2
       THEN [st EXCEPT !.exc = "ValueError"]
       ELSE BaseUpdateParameter(
                [st EXCEPT !.base = Append(@, <<param_name, bead_names,
                                                param_value>>)],
                param_name, bead_names, param_value)

\* the loop had it taken a name of more than two parts for a cross parameter
RECURSIVE UpdateLoop_lenient(_, _, _, _, _)
UpdateLoop_lenient(st, i, fit_bead, param_names, param_values) ==
    IF i > Len(param_names) THEN st
    ELSE LET fit_parameter_names_list == Split(param_names[i], "_")
             bead_names ==
                 IF Len(fit_parameter_names_list) = 1 THEN <<fit_bead>>
                 ELSE <<fit_bead, fit_parameter_names_list[2][1]>>
             call == <<"update_parameter", fit_parameter_names_list[1],
                       bead_names, param_values[i]>>
         IN Only({IF st1.exc # "none" THEN st1
                  ELSE UpdateLoop_lenient(st1, i + 1, fit_bead, param_names,
                                          param_values) :
                     st1 \in {update_parameter(
                                  [st EXCEPT !.calls = Append(@, call)],
                                  fit_parameter_names_list[1], bead_names,
                                  param_values[i])}})

\* the loop of ExpDataTemplate.update_parameters from entry i on;
\* st = [bl, cl, exc, base, calls]
RECURSIVE UpdateLoop(_, _, _, _, _)
UpdateLoop(st, i, fit_bead, param_names, param_values) ==
    IF i > Len(param_names) THEN st
    ELSE LET fit_parameter_names_list == Split(param_names[i], "_")
             bead_names ==
                 IF Len(fit_parameter_names_list) = 1 THEN <<fit_bead>>
                 ELSE <<fit_bead, fit_parameter_names_list[2][1]>>
             call == <<"update_parameter", fit_parameter_names_list[1],
                       bead_names, param_values[i]>>
         IN IF Len(fit_parameter_names_list) > 2
            THEN [st EXCEPT !.exc = "ValueError"]
            ELSE Only({IF st1.exc # "none" THEN st1
                       ELSE UpdateLoop(st1, i + 1, fit_bead, param_names,
                                       param_values) :
                          st1 \in {update_parameter(
                                       [st EXCEPT !.calls = Append(@, call)],
                                       fit_parameter_names_list[1], bead_names,
                                       param_values[i])}})

\* update_parameters had lines 83-84 been left out
update_parameters_no_refresh(bl, cl, ed, fit_bead, param_names, param_values) ==
    Only({[bl |-> st.bl, cl |-> st.cl, ed |-> ed, exc |-> st.exc,
           calls |-> st.calls] :
             st \in {UpdateLoop([bl |-> bl, cl |-> cl, exc |-> "none",
                                 base |-> <<>>, calls |-> <<>>],
                                1, fit_bead, param_names, param_values)}})

\* update_parameters had lines 83-84 been reached after a failure as well
update_parameters_finally(bl, cl, ed, fit_bead, param_names, param_values) ==
    Only({[bl |-> st.bl, cl |-> st.cl,
           ed |-> parameter_refresh(ed, st.bl, st.cl), exc |-> st.exc,
           calls |-> Append(st.calls, <<"parameter_refresh">>)] :
             st \in {UpdateLoop([bl |-> bl, cl |-> cl, exc |-> "none",
                                 base |-> <<>>, calls |-> <<>>],
                                1, fit_bead, param_names, param_values)}})

\* ExpDataTemplate.update_parameters, the Eos being an EosType
update_parameters(bl, cl, ed, fit_bead, param_names, param_values) ==
    Only({IF st.exc # "none"
          THEN [bl |-> st.bl, cl |-> st.cl, ed |-> ed, exc |-> st.exc,
                calls |-> st.calls]
          ELSE [bl |-> st.bl, cl |-> st.cl,
                ed |-> parameter_refresh(ed, st.bl, st.cl), exc |-> "none",
                calls |-> Append(st.calls, <<"parameter_refresh">>)] :
             st \in {UpdateLoop([bl |-> bl, cl |-> cl, exc |-> "none",
                                 base |-> <<>>, calls |-> <<>>],
                                1, fit_bead, param_names, param_values)}})

(***************************************************************************)
(* Actions on the parameter tables                                         *)
(***************************************************************************)
UpdateParameter ==
    /\ pc = "idle"
    /\ \E param_name \in {EpsKey, BadSiteName, NoSiteName},
          bead_names \in BeadNames, param_value \in ParamVals :
         \E st \in {update_parameter(
                       [bl |-> bead_library, cl |-> cross_library,
                        exc |-> "none", base |-> <<>>],
                       param_name, bead_names, param_value)} :
            /\ bead_library' = st.bl
            /\ cross_library' = st.cl
            /\ last' = [op |-> "update_parameter", param_name |-> param_name,
                        bead_names |-> bead_names, param_value |-> param_value,
                        exc |-> st.exc, delegated |-> st.base]
    /\ pc' = "returned"
    /\ UNCHANGED <<eos_dict, ctor, sv>>

ParameterRefresh ==
    /\ pc = "idle"
    /\ eos_dict' = parameter_refresh(eos_dict, bead_library, cross_library)
    /\ last' = [op |-> "parameter_refresh", exc |-> "none",
                flag_before |-> eos_dict.flag_assoc]
    /\ pc' = "returned"
    /\ UNCHANGED <<bead_library, cross_library, ctor, sv>>

NameLists == UNION {[1..n -> ParamNames] : n \in 0..MaxNames}

UpdateParameters ==
    /\ pc = "idle"
    /\ \E fit_bead \in FitBeads, param_names \in NameLists :
       \E param_values \in [1..Len(param_names) -> ParamVals] :
         \E r \in {update_parameters(bead_library, cross_library, eos_dict,
                                      fit_bead, param_names, param_values)} :
            /\ bead_library' = r.bl
            /\ cross_library' = r.cl
            /\ eos_dict' = r.ed
            /\ last' = [op |-> "update_parameters", fit_bead |-> fit_bead,
                        param_names |-> param_names,
                        param_values |-> param_values,
                        exc |-> r.exc, calls |-> r.calls]
    /\ pc' = "returned"
    /\ UNCHANGED <<ctor, sv>>

(***************************************************************************)
(* The flash data object, Data.__init__ of data_classes/flash.py.  A        *)
(* dictionary is a function on the keys it holds; a list of data points is *)
(* known by its length, a weight is a float or a list.                     *)
(***************************************************************************)
EmptyDict == [k \in {} |-> 0]
Opt(key, vals) == {EmptyDict} \cup {key :> v : v \in vals}
DataLists == {[n \in 1..k |-> 1] : k \in 0..MaxData}
FloatWeight == [type |-> "float", v |-> <<>>]
ListWeights == {[type |-> "list", v |-> l] : l \in DataLists \ {<<>>}}
\* the weight of T is only renamed, a float stands for any value of it
WeightDicts ==
    {w_xi @@ w_T @@ w_yi @@ w_P :
        w_xi \in Opt("xi", {FloatWeight} \cup ListWeights),
        w_T \in Opt("T", {FloatWeight}),
        w_yi \in Opt("yi", {FloatWeight} \cup ListWeights),
        w_P \in Opt("P", {FloatWeight} \cup ListWeights)}
\* a data_dict put together from the entries it is given
DataDict(d_eos, d_w, d_xi, d_T, d_yi, d_P, d_ct) ==
    ("name" :> "TLVE") @@ d_eos @@ d_w @@ d_xi @@ d_T @@ d_yi @@ d_P @@ d_ct

\* self.weights[new] = self.weights.pop(old), when old is a key
PopInto(weights, old, new) ==
    IF old \notin DOMAIN weights THEN weights
    ELSE [k \in (DOMAIN weights \ {old}) \cup {new} |->
             IF k = new THEN weights[old] ELSE weights[k]]
\* the weight under key is a list of another length than the data
WeightMismatch(weights, thermodict, key) ==
    /\ key \in DOMAIN weights
    /\ weights[key].type # "float"
    /\ Len(weights[key].v) # Len(thermodict[key])
\* line 107: some entry of _thermodict is as long as xilist
AnySameLength(thermodict) ==
    \E key \in DOMAIN thermodict :
        Len(thermodict[key]) = Len(thermodict["xilist"])
Rejected(exc, msg) ==
    [exc |-> exc, msg |-> msg, thermodict |-> EmptyDict, weights |-> EmptyDict]

\* Data.__init__: the outcome and, when it returns, _thermodict and weights
DataInit(data_dict) ==
    LET has(key) == key \in DOMAIN data_dict
        thermodict ==
            (IF has("xi") THEN "xilist" :> data_dict["xi"] ELSE EmptyDict)
            @@ (IF has("T") THEN "Tlist" :> data_dict["T"] ELSE EmptyDict)
            @@ (IF has("yi") THEN "yilist" :> data_dict["yi"] ELSE EmptyDict)
            @@ (IF has("P")
                THEN ("Plist" :> data_dict["P"]) @@ ("Pguess" :> data_dict["P"])
                ELSE EmptyDict)
        w0 == IF has("weights") THEN data_dict["weights"] ELSE EmptyDict
        w1 == IF has("xi") THEN PopInto(w0, "xi", "xilist") ELSE w0
        w2 == IF has("T") THEN PopInto(w1, "T", "Tlist") ELSE w1
        w3 == IF has("yi") THEN PopInto(w2, "yi", "yilist") ELSE w2
        w4 == IF has("P") THEN PopInto(w3, "P", "Plist") ELSE w3
        weights == [k \in DOMAIN w4 \cup DOMAIN thermodict |->
                       IF k \in DOMAIN w4 THEN w4[k] ELSE FloatWeight]
    IN IF ~has("eos_obj") THEN Rejected("ValueError", "eos")
       ELSE IF has("xi") /\ "xi" \in DOMAIN w0
               /\ WeightMismatch(w1, thermodict, "xilist")
       THEN Rejected("ValueError", "weights")
       ELSE IF has("yi") /\ "yi" \in DOMAIN w2
               /\ WeightMismatch(w3, thermodict, "yilist")
       THEN Rejected("ValueError", "weights")
       ELSE IF has("P") /\ "P" \in DOMAIN w3
               /\ WeightMismatch(w4, thermodict, "Plist")
       THEN Rejected("ValueError", "weights")
       ELSE IF ~(\E x \in {"Plist", "Tlist"} : x \in DOMAIN thermodict)
       THEN Rejected("ImportError", "P and T")
       ELSE IF ~(\A x \in {"xilist", "yilist"} : x \in DOMAIN thermodict)
       THEN Rejected("ImportError", "mole fractions")
       ELSE IF ~AnySameLength(thermodict)
       THEN Rejected("ValueError", "length")
       ELSE IF ~has("calctype") THEN Rejected("AttributeError", "calctype")
       ELSE [exc |-> "none", msg |-> "",
             thermodict |-> thermodict
                            @@ ("calculation_type" :> data_dict["calctype"])
                            @@ ("rhodict" :> "default"),
             weights |-> weights]

\* a flash data object is constructed around the equation of state
NewData ==
    /\ pc = "idle"
    /\ \E d_eos \in Opt("eos_obj", {"eos"}), d_w \in Opt("weights", WeightDicts),
          d_xi \in Opt("xi", DataLists), d_T \in Opt("T", DataLists),
          d_yi \in Opt("yi", DataLists), d_P \in Opt("P", DataLists),
          d_ct \in Opt("calctype", {"phase_xiT"}) :
       \E data_dict \in {DataDict(d_eos, d_w, d_xi, d_T, d_yi, d_P, d_ct)} :
         \E out \in {DataInit(data_dict)} :
            last' = [op |-> "Data.__init__", data_dict |-> data_dict,
                     exc |-> out.exc, msg |-> out.msg,
                     thermodict |-> out.thermodict, weights |-> out.weights]
    /\ pc' = "returned"
    /\ UNCHANGED <<bead_library, cross_library, eos_dict, ctor, sv>>

(***************************************************************************)
(* Actions: one public call each                                           *)
(***************************************************************************)
\* the return of an evaluator had it recorded in flag_assoc whether it raised
Returned_recording(op, rho, T, xi, out) ==
    /\ last' = [op |-> op, rho |-> rho, T |-> T, xi |-> xi,
                exc |-> out.exc, val |-> out.val, calls |-> out.calls]
    /\ pc' = "returned"
    /\ eos_dict' = [eos_dict EXCEPT !.flag_assoc = (out.exc = "none")]
    /\ UNCHANGED <<bead_library, cross_library, ctor, sv>>

\* the return of an evaluator: the outcome goes to the caller, the object is
\* as it was
Returned(op, rho, T, xi, out) ==
    /\ last' = [op |-> op, rho |-> rho, T |-> T, xi |-> xi,
                exc |-> out.exc, val |-> out.val, calls |-> out.calls]
    /\ pc' = "returned"
    /\ UNCHANGED <<bead_library, cross_library, eos_dict, ctor, sv>>

ResidualHelmholtzEnergy ==
    /\ pc = "idle"
    /\ \E rho \in RhoInputs, T \in TVals, xi \in XiInputs :
         \E out \in {residual_helmholtz_energy(eos_dict, rho, T, xi)} :
            Returned("residual_helmholtz_energy", rho, T, xi, out)

HelmholtzEnergy ==
    /\ pc = "idle"
    /\ \E rho \in RhoInputs, T \in TVals, xi \in XiInputs :
         \E out \in {helmholtz_energy(eos_dict, rho, T, xi)} :
            Returned("helmholtz_energy", rho, T, xi, out)

\* a call of Aideal by a caller that passes the configured method
AidealCall ==
    /\ pc = "idle"
    /\ \E rho \in RhoInputs, T \in TVals, xi \in XiInputs :
         \E out \in {Aideal(eos_dict, rho, T, xi, eos_dict.Aideal_method)} :
            Returned("Aideal", rho, T, xi, out)

AassocCall ==
    /\ pc = "idle"
    /\ \E rho \in RhoInputs, T \in TVals, xi \in XiInputs :
         \E out \in {Aassoc(eos_dict, rho, T, xi)} :
            Returned("Aassoc", rho, T, xi, out)

Pressure ==
    /\ pc = "idle"
    /\ \E rho \in RhoInputs, T \in TVals, xi \in XiInputs :
         \E out \in {pressure(eos_dict, rho, T, xi)} :
            Returned("pressure", rho, T, xi, out)

FugacityCoefficient ==
    /\ pc = "idle"
    /\ \E P \in PVals, rho \in RhoInputs, T \in TVals, xi \in XiInputs,
          log_method \in BOOLEAN :
         \E out \in {fugacity_coefficient(eos_dict, P, rho, xi, T, log_method)} :
            /\ last' = [op |-> "fugacity_coefficient", P |-> P, rho |-> rho,
                        T |-> T, xi |-> xi, log_method |-> log_method,
                        exc |-> out.exc, val |-> out.val, calls |-> out.calls]
            /\ pc' = "returned"
            /\ UNCHANGED <<bead_library, cross_library, eos_dict, ctor, sv>>

DensityMax ==
    /\ pc = "idle"
    /\ \E T \in TVals, xi \in XiInputs :
         \E out \in {density_max(eos_dict, xi, T)} :
            /\ last' = [op |-> "density_max", T |-> T, xi |-> xi,
                        exc |-> out.exc, val |-> out.val, calls |-> out.calls]
            /\ pc' = "returned"
            /\ UNCHANGED <<bead_library, cross_library, eos_dict, ctor, sv>>

(***************************************************************************)
(* Aassoc step by step: the solver loop one iteration at a time            *)
(***************************************************************************)
AassocBegin ==
    /\ pc = "idle"
    /\ \E rho \in RhoInputs, T \in TVals, xi \in XiInputs :
         \E cd \in {AassocCheck(rho, xi)} :
            IF cd.exc # "none"
            THEN /\ last' = [op |-> "Aassoc", rho |-> rho, T |-> T, xi |-> xi,
                             exc |-> cd.exc, val |-> <<>>, calls |-> <<>>,
                             it |-> 0, state |-> "rejected"]
                 /\ pc' = "returned"
                 /\ sv' = sv
            ELSE \E indices \in {assoc_site_indices(eos_dict.nk,
                                                    molecular_composition, xi)} :
                 /\ sv' = [op |-> "Aassoc", arg |-> rho, rho |-> cd.rho, T |-> T,
                           xi |-> xi,
                           Fklab |-> Fklab(eos_dict, T),
                           Kklab |-> eos_dict.Kklab,
                           gr_assoc |-> [s \in 1..Len(cd.rho) |->
                                            calc_gr_assoc(cd.rho[s], T, xi)],
                           indices |-> indices,
                           X |-> XikaInit(cd.rho, indices),
                           Xold |-> XikaInit(cd.rho, indices), it |-> 0,
                           state |-> "iterating"]
                 /\ pc' = "solving"
                 /\ last' = last
    /\ UNCHANGED <<bead_library, cross_library, eos_dict, ctor>>

\* one pass of the loop of the solver: the update of the fractions
SolverIterate ==
    /\ pc = "solving"
    /\ sv.state = "iterating"
    /\ sv.it < MaxIter
    /\ sv' = [sv EXCEPT !.X = XikaIterate(sv.X, sv.rho, sv.xi, sv.indices,
                                          molecular_composition, eos_dict.nk,
                                          sv.Fklab, sv.Kklab, sv.gr_assoc),
                        !.Xold = sv.X,
                        !.it = @ + 1,
                        !.state = "updated"]
    /\ UNCHANGED <<bead_library, cross_library, eos_dict, ctor, last, pc>>

\* one pass of the loop of the solver: the convergence test
SolverTest ==
    /\ pc = "solving"
    /\ sv.state = "updated"
    /\ sv' = [sv EXCEPT !.state = IF Converged(sv.X, sv.Xold) THEN "converged"
                                  ELSE "iterating"]
    /\ UNCHANGED <<bead_library, cross_library, eos_dict, ctor, last, pc>>

\* the iteration budget is exhausted
SolverExhausted ==
    /\ pc = "solving"
    /\ sv.state = "iterating"
    /\ sv.it >= MaxIter
    /\ sv' = [sv EXCEPT !.state = "exhausted"]
    /\ UNCHANGED <<bead_library, cross_library, eos_dict, ctor, last, pc>>

\* the solver has stopped; Aassoc finishes
AassocEnd ==
    /\ pc = "solving"
    /\ sv.state \in {"converged", "exhausted"}
    /\ \E X \in {[exc |-> IF sv.state = "converged" THEN "none"
                           ELSE "ConvergenceError",
                   Xika |-> sv.X]} :
       \E out \in {AassocFinish(X, sv.rho, sv.xi, sv.indices, eos_dict.nk)} :
          last' = [op |-> "Aassoc", rho |-> sv.arg, T |-> sv.T, xi |-> sv.xi,
                   exc |-> out.exc, val |-> out.val, calls |-> out.calls,
                   it |-> sv.it, state |-> sv.state]
    /\ pc' = "returned"
    /\ sv' = NoCall
    /\ UNCHANGED <<bead_library, cross_library, eos_dict, ctor>>

\* the caller takes the outcome of the call; the object is ready for the next
Return ==
    /\ pc = "returned"
    /\ pc' = "idle"
    /\ last' = NoCall
    /\ UNCHANGED <<bead_library, cross_library, eos_dict, ctor, sv>>

(***************************************************************************)
(* Properties                                                              *)
(***************************************************************************)
Done(ops) == pc = "returned" /\ last.op \in ops

\* every entry of the density argument, whatever its shape
Entries(rho) == {rho.v[r][c] : r \in 1..Len(rho.v), c \in
                    1..(IF Len(rho.v) = 0 THEN 0 ELSE Len(rho.v[1]))}
\* the input classes of the validation
BadXiLength(xi) == Len(xi) # number_of_components
NegativeXi(xi) == \E n \in 1..Len(xi) : xi[n] < 0
NaNDensity(rho) == \E x \in Entries(rho) : IsNaN(x)
EmptyDensity(rho) == Entries(rho) = {}
NegativeDensity(rho) == \E x \in Entries(rho) : Negative(x)
InvalidInput(rho, xi) ==
    \/ BadXiLength(xi)
    \/ NegativeXi(xi)
    \/ NaNDensity(rho)
    \/ EmptyDensity(rho)
    \/ NegativeDensity(rho)

CallNames(calls) == [n \in 1..Len(calls) |-> calls[n][1]]
Calls(name) == \E n \in 1..Len(last.calls) : last.calls[n][1] = name

\* C1: residual_helmholtz_energy raises ValueError, having called no
\* contribution and not Aassoc, exactly when xi has the wrong length or a
\* negative entry or rho has a NaN, no entry or a negative entry; for every
\* other input it does not raise a validation error.
C1_Claim ==
    Done({"residual_helmholtz_energy"}) =>
        IF InvalidInput(last.rho, last.xi)
        THEN last.exc = "ValueError" /\ last.calls = <<>>
        ELSE last.exc # "ValueError"

\* C2: helmholtz_energy, Aideal, Aassoc, pressure and fugacity_coefficient
\* raise ValueError for a mole-fraction length mismatch, a negative mole
\* fraction and a negative, NaN or empty density, and no collaborator is
\* called before the error.
C2_Claim ==
    (/\ Done({"helmholtz_energy", "Aideal", "Aassoc", "pressure",
              "fugacity_coefficient"})
     /\ InvalidInput(last.rho, last.xi))
    => (last.exc = "ValueError" /\ last.calls = <<>>)

\* len(rho) of the argument the caller supplied (a list or an array)
SuppliedLen(rho) == IF rho.nd = 1 THEN Len(rho.v[1]) ELSE Len(rho.v)
\* the length of the 1-D density that _check_density produces
NormalizedLen(rho) == Len(rho.v[1])
ArrayEvaluators == {"residual_helmholtz_energy", "helmholtz_energy", "Aassoc",
                    "pressure"}

ExpectedResidual(names, r, T, xi) ==
    [j \in 1..Len(r) |->
        SumSeq([n \in 1..Len(names) |-> ContributionValue(names[n], r[j], T, xi)])]

\* C4: a residual_helmholtz_energy call that evaluates its contributions
\* calls Aassoc if and only if flag_assoc is true, and Aassoc is never called
\* otherwise; with flag_assoc false the solver is never invoked by
\* residual_helmholtz_energy or helmholtz_energy, and the residual result is
\* the sum of the declared contributions, each called once in declared order.
C4_Theorem ==
    /\ Done({"residual_helmholtz_energy"}) =>
          /\ Calls("Aassoc") => eos_dict.flag_assoc
          /\ (last.calls # <<>> /\ eos_dict.flag_assoc) => Calls("Aassoc")
          /\ (last.exc = "none" /\ ~eos_dict.flag_assoc) =>
                /\ CallNames(last.calls) = eos_dict.residual_helmholtz_contributions
                /\ last.val = ExpectedResidual(
                                  eos_dict.residual_helmholtz_contributions,
                                  last.rho.v[1], last.T, last.xi)
    /\ (Done({"residual_helmholtz_energy", "helmholtz_energy"})
        /\ ~eos_dict.flag_assoc)
       => (~Calls("calc_Xika_wrap") /\ ~Calls("Aassoc"))

C4_Witness ==
    /\ Done({"residual_helmholtz_energy"})
    /\ ~eos_dict.flag_assoc
    /\ last.exc = "none"
    /\ Len(last.val) = 2
    /\ \E j \in 1..Len(last.val) : last.val[j] # 0

\* the association tensors that calc_assoc_matrices builds from the tables
\* as they are now
FreshTensors == calc_assoc_matrices(bead_library, cross_library, eos_dict.nk)
Refreshed ==
    \/ Done({"parameter_refresh"})
    \/ Done({"update_parameters"}) /\ last.exc = "none"

\* C5: after construction and after every parameter_refresh, flag_assoc is
\* true if and only if the epsilonHB tensor built from the current
\* bead_library and cross_library has a nonzero entry.
C5_Claim ==
    (Done({"__init__"}) \/ Refreshed)
    => (eos_dict.flag_assoc <=> ~AllZero(FreshTensors.epsilonHB))

\* C6: after update_parameter calls followed by a parameter_refresh, the
\* epsilonHB and Kklab tensors held in eos_dict are those calc_assoc_matrices
\* builds from the current tables, whatever flag_assoc was at the refresh.
C6_Claim ==
    Refreshed => (/\ eos_dict.epsilonHB = FreshTensors.epsilonHB
                  /\ eos_dict.Kklab = FreshTensors.Kklab)

\* the update_parameter call that entry n of the name list stands for
ExpectedUpdate(n) ==
    LET parts == Split(last.param_names[n], "_")
    IN <<"update_parameter", parts[1],
         IF Len(parts) = 1 THEN <<last.fit_bead>>
         ELSE <<last.fit_bead, parts[2][1]>>,
         last.param_values[n]>>
ExpectedUpdates(k) == [n \in 1..k |-> ExpectedUpdate(n)]
\* entry n names more than one bead
TooManyBeads(n) == Len(Split(last.param_names[n], "_")) > 2
\* Eos.update_parameter rejects the parameter of entry n
RejectedName(n) ==
    LET parameter_list == Split(Split(last.param_names[n], "_")[1], "-")
    IN Len(parameter_list) > 1 /\ Len(parameter_list) # 3
FailsAt(n) == TooManyBeads(n) \/ RejectedName(n)

\* C7 as stated: update_parameters calls Eos.update_parameter exactly once for
\* each entry of param_names, in list order with the value at the same index,
\* and then calls parameter_refresh exactly once, after the last update.
C7_Claim ==
    Done({"update_parameters"}) =>
        /\ Len(last.calls) = Len(last.param_names) + 1
        /\ \A n \in 1..Len(last.param_names) :
              /\ last.calls[n][1] = "update_parameter"
              /\ last.calls[n][4] = last.param_values[n]
        /\ last.calls[Len(last.calls)] = <<"parameter_refresh">>

\* C7 amended: when no entry names more than one bead and no
\* Eos.update_parameter call raises, update_parameter is called exactly once
\* per entry in list order with the value at the same index and then
\* parameter_refresh exactly once, after the last update.  Otherwise the call
\* raises ValueError at the first failing entry k: the entries before k have
\* been passed on in order, entry k has been passed on only when it names at
\* most two beads, no later entry is passed on and parameter_refresh is not
\* called.
C7_Amended ==
    Done({"update_parameters"}) =>
        LET N == Len(last.param_names)
        IN IF \A n \in 1..N : ~FailsAt(n)
           THEN /\ last.exc = "none"
                /\ last.calls = ExpectedUpdates(N) \o <<<<"parameter_refresh">>>>
           ELSE LET k == CHOOSE n \in 1..N :
                             FailsAt(n) /\ \A m \in 1..(n - 1) : ~FailsAt(m)
                IN /\ last.exc = "ValueError"
                   /\ last.calls = ExpectedUpdates(IF TooManyBeads(k) THEN k - 1
                                                   ELSE k)

C7_Witness ==
    /\ Done({"update_parameters"})
    /\ last.exc = "none"
    /\ Len(last.param_names) = 2
    /\ last.param_names[1] # last.param_names[2]
    /\ last.param_values[1] # last.param_values[2]
    /\ last.calls[3] = <<"parameter_refresh">>

\* the ideal-gas method the constructor was asked for
ConfiguredMethod ==
    IF ctor.Aideal_method # None THEN ctor.Aideal_method
    ELSE DeclaredAidealMethod(ctor.saft_name)

\* C8: eos_dict["Aideal_method"] is the constructor's Aideal_method argument
\* when one is given and the variant's declared method otherwise, no
\* operation changes it, and helmholtz_energy returns the residual Helmholtz
\* energy plus the ideal-gas contribution computed with that method.
C8_Theorem ==
    /\ eos_dict.Aideal_method = ConfiguredMethod
    /\ (Done({"helmholtz_energy"}) /\ last.exc = "none") =>
          LET res == residual_helmholtz_energy(eos_dict, last.rho, last.T, last.xi)
              r == last.rho.v[1]
          IN /\ res.exc = "none"
             /\ last.val = AddSeq(res.val,
                                  [j \in 1..Len(r) |->
                                      IdealValue(ConfiguredMethod, r[j], last.T,
                                                 last.xi)])
             /\ last.calls = res.calls
                               \o <<Call("Aideal_contribution", ConfiguredMethod)>>

C8_Witness ==
    /\ Done({"helmholtz_energy"})
    /\ last.exc = "none"
    /\ ctor.Aideal_method # None
    /\ ctor.Aideal_method # DeclaredAidealMethod(ctor.saft_name)
    /\ Calls("Aideal_contribution")

LogMethodArg(log_method) ==
    IF log_method THEN "log_method=True" ELSE "log_method=False"

\* C9: the log_method value that fugacity_coefficient gives to
\* partial_density_central_difference is the value its caller passed.
C9_Claim ==
    Done({"fugacity_coefficient"}) =>
        \A n \in 1..Len(last.calls) :
            last.calls[n][1] = "partial_density_central_difference"
            => last.calls[n][2] = LogMethodArg(last.log_method)

\* C10: the site-fraction iteration started by Aassoc always terminates,
\* within the iteration budget; it stops when every sample has converged or
\* when the budget is exhausted, and in the second case the caller of Aassoc
\* gets a convergence failure, which is not the validation error, and no
\* association energy.
C10_Theorem ==
    /\ (pc = "solving") ~> (pc = "returned")
    /\ [](pc = "solving" => sv.it <= MaxIter)
    /\ [](Done({"Aassoc"}) =>
            /\ last.state \in {"rejected", "converged", "exhausted"}
            /\ last.state = "converged" => last.exc = "none"
            /\ last.state = "exhausted" =>
                  /\ last.it = MaxIter
                  /\ last.exc = "ConvergenceError"
                  /\ last.exc # "ValueError"
                  /\ last.val = <<>>)

C10_Witness ==
    /\ Done({"Aassoc"})
    /\ ~InvalidInput(last.rho, last.xi)
    /\ last.state = "exhausted"
    /\ last.it = MaxIter
    /\ last.exc = "ConvergenceError"

\* the compositions that differ from molecular_composition at most in the
\* beads of component i
OtherCompositions(i) ==
    {mc \in [Comps -> [Beads -> 0..1]] :
        \A j \in Comps \ {i} : mc[j] = molecular_composition[j]}

\* lines 279-290 of Aassoc for a molecular composition mc and a validated
\* density r: the outcome and the energy
AssocEnergy(ed, r, T, xi, mc) ==
    Only({Only({IF X.exc # "none" THEN [exc |-> X.exc, val |-> <<>>]
                ELSE [exc |-> "none",
                      val |-> AssocContribution(X.Xika, r, xi, indices, mc, ed.nk)] :
                   X \in {calc_Xika_wrap(indices, r, xi, mc, ed.nk, Fklab(ed, T),
                                         ed.Kklab,
                                         [s \in 1..Len(r) |->
                                             calc_gr_assoc(r[s], T, xi)])}}) :
             indices \in {assoc_site_indices(ed.nk, mc, xi)}})

\* the energy of sample s as the claim states it: the triples of the index
\* list, each weighted by xi[j] * molecular_composition[j, k] * nk[k, a]
WeightedEnergy(X, s, xi, indices, nk) ==
    SumSeq([ind \in 1..Len(indices) |->
               xi[indices[ind][1]]
                 * molecular_composition[indices[ind][1]][indices[ind][2]]
                 * nk[indices[ind][2]][indices[ind][3]]
                 * (LnS(X[s][ind]) + ((SC - X[s][ind]) \div 2))])

\* C11: in Aassoc a component i with xi[i] = 0 has no triple in the index
\* list given to the solver, every triple of the list has a nonzero mole
\* fraction and multiplicity, the returned energy is the sum over the triples
\* of the list weighted by xi[j] * molecular_composition[j, k] * nk[k, a], and
\* it does not depend on the beads of a component with xi[i] = 0.
C11_Theorem ==
    /\ pc = "solving" =>
          /\ \A ind \in 1..Len(sv.indices) :
                /\ sv.xi[sv.indices[ind][1]] # 0
                /\ eos_dict.nk[sv.indices[ind][2]][sv.indices[ind][3]] # 0
          /\ \A s \in 1..Len(sv.X) : Len(sv.X[s]) = Len(sv.indices)
    /\ (Done({"Aassoc"}) /\ last.state = "converged") =>
          LET r == last.rho.v[1]
              indices == assoc_site_indices(eos_dict.nk, molecular_composition,
                                            last.xi)
              X == calc_Xika_wrap(indices, r, last.xi, molecular_composition,
                                  eos_dict.nk, Fklab(eos_dict, last.T),
                                  eos_dict.Kklab,
                                  [s \in 1..Len(r) |->
                                      calc_gr_assoc(r[s], last.T, last.xi)])
          IN /\ \A i \in Comps : last.xi[i] = 0 =>
                   /\ \A ind \in 1..Len(indices) : indices[ind][1] # i
                   /\ \A mc \in OtherCompositions(i) :
                         AssocEnergy(eos_dict, r, last.T, last.xi, mc)
                           = [exc |-> last.exc, val |-> last.val]
             /\ X.exc = "none"
             /\ \A s \in 1..Len(r) :
                   IF \A ind \in 1..Len(indices) :
                          ~IsNaN(X.Xika[s][ind]) /\ X.Xika[s][ind] > 0
                   THEN last.val[s]
                          = WeightedEnergy(X.Xika, s, last.xi, indices, eos_dict.nk)
                   ELSE IsNaN(last.val[s])

C11_Witness ==
    /\ Done({"Aassoc"})
    /\ last.state = "converged"
    /\ ~InvalidInput(last.rho, last.xi)
    /\ \E i \in Comps : last.xi[i] = 0
    /\ \E i \in Comps : last.xi[i] # 0
    /\ \E s \in 1..Len(last.val) : last.val[s] # 0

EvaluatorOps ==
    {"residual_helmholtz_energy", "helmholtz_energy", "Aideal", "Aassoc",
     "pressure", "fugacity_coefficient", "density_max"}
\* the parameter tables and everything derived from them
Tables == <<bead_library, cross_library, eos_dict>>

\* C12: the evaluators residual_helmholtz_energy, helmholtz_energy, Aideal,
\* Aassoc, pressure, fugacity_coefficient and density_max leave bead_library,
\* cross_library and every entry of eos_dict unchanged, whether they return
\* or raise; a step that changes this state is an update_parameter or a
\* parameter_refresh (also when made by update_parameters).
C12_Theorem ==
    [][/\ (pc' = "returned" /\ last'.op \in EvaluatorOps) => Tables' = Tables
       /\ Tables' # Tables =>
             /\ pc' = "returned"
             /\ \/ last'.op \in {"update_parameter", "parameter_refresh"}
                \/ last'.op = "update_parameters" /\ last'.calls # <<>>]_vars

C12_Witness ==
    /\ Done(EvaluatorOps)
    /\ last.exc # "none"
    /\ last.calls # <<>>
    /\ eos_dict.flag_assoc

\* C13: rebuilding the association tensors is idempotent: a parameter_refresh
\* that follows a parameter_refresh with the tables unchanged leaves eos_dict
\* (tensors and flag_assoc) as the first one left it, and a refresh directly
\* after construction leaves the tensors as constructed.
C13_Theorem ==
    /\ Done({"parameter_refresh"}) =>
          parameter_refresh(eos_dict, bead_library, cross_library) = eos_dict
    /\ Done({"__init__"}) =>
          LET again == parameter_refresh(eos_dict, bead_library, cross_library)
          IN /\ again.epsilonHB = eos_dict.epsilonHB
             /\ again.Kklab = eos_dict.Kklab

\* a refresh that rebuilt non-zero tensors from the tables
C13_Witness ==
    /\ Done({"parameter_refresh"})
    /\ eos_dict.flag_assoc
    /\ last.flag_before
    /\ ~AllZero(eos_dict.epsilonHB)
    /\ eos_dict.epsilonHB = FreshTensors.epsilonHB
    /\ \E x \in DOMAIN eos_dict.epsilonHB : eos_dict.epsilonHB[x] = 0 /\ x[3] # x[4]

\* the number of separators sep in the name s
Count(s, sep) == Cardinality({n \in 1..Len(s) : s[n] = sep})
\* the Eos.update_parameter calls among the calls of update_parameters
UpdateCalls == SelectSeq(last.calls, LAMBDA c : c[1] = "update_parameter")

\* C14: update_parameters dispatches on the underscores of a name: a name
\* without one updates the parameter of that name with bead_names = [fit_bead],
\* a name 'param_other' updates 'param' with bead_names = [fit_bead, other], and
\* a name with two or more underscores raises ValueError without a call to
\* Eos.update_parameter for it.
C14_Theorem ==
    Done({"update_parameters"}) =>
        \A n \in 1..Len(last.param_names) :
            LET name == last.param_names[n]
                reached == \A m \in 1..(n - 1) : ~FailsAt(m)
            IN /\ (reached /\ Count(name, "_") = 0) =>
                     /\ Len(UpdateCalls) >= n
                     /\ UpdateCalls[n] = <<"update_parameter", name,
                                           <<last.fit_bead>>,
                                           last.param_values[n]>>
               /\ (reached /\ Count(name, "_") = 1) =>
                     /\ Len(UpdateCalls) >= n
                     /\ UpdateCalls[n][2] \o <<"_", UpdateCalls[n][3][2]>> = name
                     /\ Len(UpdateCalls[n][3]) = 2
                     /\ UpdateCalls[n][3][1] = last.fit_bead
                     /\ UpdateCalls[n][4] = last.param_values[n]
               /\ Count(name, "_") >= 2 =>
                     /\ Len(UpdateCalls) < n
                     /\ reached => last.exc = "ValueError"

\* a cross parameter is dispatched, then a name of three parts is refused
C14_Witness ==
    /\ Done({"update_parameters"})
    /\ Len(last.param_names) = 2
    /\ Count(last.param_names[1], "_") = 1
    /\ Count(last.param_names[2], "_") = 2
    /\ last.exc = "ValueError"
    /\ Len(last.calls) = 1
    /\ last.calls[1][3] = <<last.fit_bead, "b2">>

\* C15: EosType.update_parameter raises ValueError when the name carries site
\* names that are not exactly two, without a call to the base class and with
\* the tables and eos_dict unchanged; a name with no site name or with two is
\* handed once to the base class with the same name, beads and value.
C15_Theorem ==
    [][(pc' = "returned" /\ last'.op = "update_parameter") =>
          LET sites == Count(last'.param_name, "-")
          IN IF sites # 0 /\ sites # 2
             THEN /\ last'.exc = "ValueError"
                  /\ last'.delegated = <<>>
                  /\ Tables' = Tables
             ELSE /\ last'.exc = "none"
                  /\ last'.delegated = <<<<last'.param_name, last'.bead_names,
                                           last'.param_value>>>>
                  /\ eos_dict' = eos_dict]_vars

\* a name with one site name was refused and the entry it names was left alone
C15_Witness ==
    /\ Done({"update_parameter"})
    /\ last.param_name = BadSiteName
    /\ last.exc = "ValueError"
    /\ last.bead_names = <<"b1">>
    /\ bead_library["b1"][EpsKey] # last.param_value

\* the tables after the updates of the entries n..k of an update_parameters
RECURSIVE ApplyEntries(_, _, _, _, _, _)
ApplyEntries(st, n, k, fit_bead, param_names, param_values) ==
    IF n > k THEN st
    ELSE LET parts == Split(param_names[n], "_")
         IN Only({ApplyEntries(st1, n + 1, k, fit_bead, param_names,
                               param_values) :
                     st1 \in {BaseUpdateParameter(
                                  st, parts[1],
                                  IF Len(parts) = 1 THEN <<fit_bead>>
                                  ELSE <<fit_bead, parts[2][1]>>,
                                  param_values[n])}})
\* the first entry of the call in last that fails
FirstFailing ==
    CHOOSE n \in 1..Len(last.param_names) :
        FailsAt(n) /\ \A m \in 1..(n - 1) : ~FailsAt(m)

\* C16: when update_parameters raises at entry n, the tables hold the updates
\* of the entries before n and of no later entry, parameter_refresh has not
\* been called, and eos_dict still holds the tensors built from the earlier
\* values.
C16_Theorem ==
    [][(pc' = "returned" /\ last'.op = "update_parameters"
        /\ last'.exc # "none") =>
          /\ \A k \in {FirstFailing' - 1} :
                \A applied \in {ApplyEntries(
                                    [bl |-> bead_library, cl |-> cross_library],
                                    1, k, last'.fit_bead, last'.param_names,
                                    last'.param_values)} :
                   /\ bead_library' = applied.bl
                   /\ cross_library' = applied.cl
          /\ eos_dict' = eos_dict
          /\ \A n \in 1..Len(last'.calls) :
                last'.calls[n] # <<"parameter_refresh">>]_vars

\* the second entry failed after the first changed the energy the tensors
\* were built from
C16_Witness ==
    /\ Done({"update_parameters"})
    /\ last.exc = "ValueError"
    /\ Len(last.param_names) = 2
    /\ FirstFailing = 2
    /\ last.param_names[1] = EpsKey
    /\ bead_library[last.fit_bead][EpsKey] = last.param_values[1]
    /\ eos_dict.flag_assoc
    /\ eos_dict.epsilonHB # FreshTensors.epsilonHB

\* the lists among T, P, yi and xi that the data_dict of the call in last gives
GivenLists == {key \in {"T", "P", "yi", "xi"} : key \in DOMAIN last.data_dict}
SameLengths ==
    \A a, b \in GivenLists : Len(last.data_dict[a]) = Len(last.data_dict[b])
\* no list of weights differs in length from the data it weighs
WeightsFit ==
    "weights" \in DOMAIN last.data_dict =>
        \A key \in {"xi", "yi", "P"} \cap GivenLists :
            key \in DOMAIN last.data_dict["weights"] =>
                \/ last.data_dict["weights"][key].type = "float"
                \/ Len(last.data_dict["weights"][key].v)
                      = Len(last.data_dict[key])
Complete ==
    /\ {"xi", "yi"} \subseteq GivenLists
    /\ GivenLists \cap {"P", "T"} # {}

\* C17 as stated: constructing a flash Data object raises ValueError when no
\* eos_obj is given, ImportError when neither P nor T is given or when xi or yi
\* is missing, ValueError ('not all the same length') whenever the given T, P,
\* yi and xi lists differ in length, and passes these checks when eos_obj, xi,
\* yi and P or T are given with lists of equal length.
C17_Claim ==
    Done({"Data.__init__"}) =>
        /\ "eos_obj" \notin DOMAIN last.data_dict => last.exc = "ValueError"
        /\ ("eos_obj" \in DOMAIN last.data_dict /\ WeightsFit) =>
              /\ ~Complete => last.exc = "ImportError"
              /\ (Complete /\ ~SameLengths) =>
                    last.exc = "ValueError" /\ last.msg = "length"
              /\ (Complete /\ SameLengths) =>
                    last.exc \notin {"ValueError", "ImportError"}

Next ==
    \/ UpdateParameter
    \/ ParameterRefresh
    \/ UpdateParameters
    \/ ResidualHelmholtzEnergy
    \/ HelmholtzEnergy
    \/ AidealCall
    \/ AassocCall
    \/ Pressure
    \/ FugacityCoefficient
    \/ DensityMax
    \/ Return

Spec == Init /\ [][Next]_vars

\* the object with Aassoc run step by step; a running call is not suspended
NextSolver ==
    \/ UpdateParameter
    \/ ParameterRefresh
    \/ AassocBegin
    \/ SolverIterate
    \/ SolverTest
    \/ SolverExhausted
    \/ AassocEnd
    \/ Return

SolverSpec ==
    /\ Init
    /\ [][NextSolver]_vars
    /\ WF_vars(SolverIterate)
    /\ WF_vars(SolverTest)
    /\ WF_vars(SolverExhausted)
    /\ WF_vars(AassocEnd)

\* one equation of state and the flash data objects built around it
FlashInit ==
    /\ Init
    /\ ctor.Aideal_method = None
    /\ \A key \in ParamKeys :
          /\ \A k \in FitBeads : bead_library[k][key] = 4
          /\ \A pair \in CrossPairs : cross_library[pair][key] = Absent

NextFlash ==
    \/ NewData
    \/ Return

FlashSpec == FlashInit /\ [][NextFlash]_vars

====
